---- MODULE Spec2Model ----
(***************************************************************************)
(* A model of the Alto proxy: the token cache (getToken), the bearer gate, *)
(* the /import pipeline (list, per-property fetch, classify, map) and the  *)
(* field accessor get.  The repository holds two variants of the server:   *)
(*   variant "A" = src/index.js          (node-fetch, TOKEN_TTL 20 min)    *)
(*   variant "B" = src/unnamed/part_000  (axios, expiry 10 min)            *)
(* The variable `variant` says which of the two files is running.          *)
(***************************************************************************)
EXTENDS Integers, Sequences, FiniteSets, TLC

(***************************************************************************)
(* JavaScript values.  Every value is a tagged record, so that values of   *)
(* different JavaScript types can be compared.                             *)
(***************************************************************************)
Undefined == [t |-> "undefined"]
Null == [t |-> "null"]
NaN == [t |-> "NaN"]
Str(s) == [t |-> "string", s |-> s]
Num(n) == [t |-> "number", n |-> n, frac |-> FALSE]
NumFrac(n) == [t |-> "number", n |-> n, frac |-> TRUE]
Bool(b) == [t |-> "boolean", b |-> b]
Arr(a) == [t |-> "array", a |-> a]
Obj(o) == [t |-> "object", o |-> o]
EmptyObj == Obj(<<>>)
\* Not a value: the evaluation threw a TypeError.
Thrown == [t |-> "thrown"]

\* JavaScript truthiness (ToBoolean).
Truthy(v) ==
  CASE v.t = "undefined" -> FALSE
    [] v.t = "null" -> FALSE
    [] v.t = "NaN" -> FALSE
    [] v.t = "string" -> v.s # ""
    [] v.t = "number" -> v.n # 0 \/ v.frac
    [] v.t = "boolean" -> v.b
    [] OTHER -> TRUE

\* a || b
Or(a, b) == IF Truthy(a) THEN a ELSE b

\* v[key] for a string key: a TypeError on undefined and null, undefined
\* on a missing key; an array or a string has its indices and "length" as
\* keys.
Member(v, key) ==
  CASE v.t \in {"undefined", "null"} -> Thrown
    [] v.t = "object" -> IF key \in DOMAIN v.o THEN v.o[key] ELSE Undefined
    [] v.t = "array" ->
         IF key = "length" THEN [t |-> "number", n |-> Len(v.a), frac |-> FALSE]
         ELSE IF \E i \in 1..Len(v.a) : ToString(i - 1) = key
              THEN v.a[(CHOOSE i \in 1..Len(v.a) : ToString(i - 1) = key)]
              ELSE Undefined
    [] v.t = "string" ->
         IF key = "length" THEN [t |-> "number", n |-> Len(v.s), frac |-> FALSE]
         ELSE IF \E i \in 1..Len(v.s) : ToString(i - 1) = key
              THEN LET i == CHOOSE j \in 1..Len(v.s) : ToString(j - 1) = key
                   IN [t |-> "string", s |-> SubSeq(v.s, i, i)]
              ELSE Undefined
    [] OTHER -> Undefined

\* OptMember without the `?.`: a plain v[key].
OptMemberStrict(v, key) == Member(v, key)

\* v?.[key]: undefined on undefined and null, v[key] otherwise.
OptMember(v, key) ==
  IF v.t \in {"undefined", "null"} THEN Undefined ELSE Member(v, key)

\* v?.[0]
Index0(v) ==
  CASE v.t = "array" -> IF Len(v.a) > 0 THEN v.a[1] ELSE Undefined
    [] v.t = "string" -> IF Len(v.s) > 0 THEN Str(SubSeq(v.s, 1, 1)) ELSE Undefined
    [] OTHER -> Undefined

(***************************************************************************)
(* Strings.                                                                *)
(***************************************************************************)
\* String.prototype.includes
Includes(s, sub) ==
  \E i \in 1..(Len(s) - Len(sub) + 1) : SubSeq(s, i, i + Len(sub) - 1) = sub

LowerChar(c) ==
  CASE c = "S" -> "s" [] c = "T" -> "t" [] c = "U" -> "u" [] c = "D" -> "d"
    [] c = "E" -> "e" [] c = "N" -> "n" [] c = "L" -> "l" [] c = "I" -> "i"
    [] c = "G" -> "g" [] c = "O" -> "o" [] c = "F" -> "f" [] c = "A" -> "a"
    [] OTHER -> c

RECURSIVE toLowerCase(_)
toLowerCase(s) ==
  IF s = "" THEN "" ELSE LowerChar(SubSeq(s, 1, 1)) \o toLowerCase(Tail(s))

\* path.split('.')
RECURSIVE SplitFrom(_, _)
SplitFrom(s, cur) ==
  IF s = "" THEN <<cur>>
  ELSE IF SubSeq(s, 1, 1) = "." THEN <<cur>> \o SplitFrom(Tail(s), "")
  ELSE SplitFrom(Tail(s), cur \o SubSeq(s, 1, 1))

split(path) == SplitFrom(path, "")

\* The text an element of Array.prototype.join contributes: null and
\* undefined give the empty string, a string gives itself.
JoinText(v) ==
  CASE v.t = "string" -> v.s
    [] v.t = "null" -> ""
    [] v.t = "undefined" -> ""
    [] OTHER -> "[object Object]"

RECURSIVE join(_, _)
join(vals, sep) ==
  IF Len(vals) = 0 THEN ""
  ELSE IF Len(vals) = 1 THEN JoinText(vals[1])
  ELSE JoinText(vals[1]) \o sep \o join(Tail(vals), sep)

Digit(c) ==
  CASE c = "0" -> 0 [] c = "1" -> 1 [] c = "2" -> 2 [] c = "3" -> 3
    [] c = "4" -> 4 [] c = "5" -> 5 [] c = "6" -> 6 [] c = "7" -> 7
    [] c = "8" -> 8 [] c = "9" -> 9 [] OTHER -> -1

RECURSIVE SkipSpaces(_)
SkipSpaces(s) ==
  IF s # "" /\ SubSeq(s, 1, 1) = " " THEN SkipSpaces(Tail(s)) ELSE s

\* The longest prefix of digits of s, as <<value, number of digits, rest>>.
RECURSIVE Digits(_, _, _)
Digits(s, acc, n) ==
  IF s # "" /\ Digit(SubSeq(s, 1, 1)) >= 0
  THEN Digits(Tail(s), acc * 10 + Digit(SubSeq(s, 1, 1)), n + 1)
  ELSE <<acc, n, s>>

\* parseInt(v): the string form of v, leading blanks skipped, an optional
\* sign, then the longest run of digits; NaN when there is none.
parseInt(v) ==
  IF v.t # "string" THEN NaN
  ELSE LET s0 == SkipSpaces(v.s)
           neg == s0 # "" /\ SubSeq(s0, 1, 1) = "-"
           s1 == IF s0 # "" /\ SubSeq(s0, 1, 1) \in {"-", "+"} THEN Tail(s0) ELSE s0
           d == Digits(s1, 0, 0)
       IN IF d[2] = 0 THEN NaN ELSE Num(IF neg THEN 0 - d[1] ELSE d[1])

\* parseFloat(v): as parseInt, plus an optional fraction ".digits"; the
\* result keeps the integer part and whether the fraction is non-zero.
parseFloat(v) ==
  IF v.t # "string" THEN NaN
  ELSE LET s0 == SkipSpaces(v.s)
           neg == s0 # "" /\ SubSeq(s0, 1, 1) = "-"
           s1 == IF s0 # "" /\ SubSeq(s0, 1, 1) \in {"-", "+"} THEN Tail(s0) ELSE s0
           d == Digits(s1, 0, 0)
           hasDot == d[3] # "" /\ SubSeq(d[3], 1, 1) = "."
           f == IF hasDot THEN Digits(Tail(d[3]), 0, 0) ELSE <<0, 0, "">>
           n == IF neg THEN 0 - d[1] ELSE d[1]
       IN IF d[2] = 0 /\ f[2] = 0 THEN NaN
          ELSE IF f[1] # 0 THEN NumFrac(n) ELSE Num(n)

(***************************************************************************)
(* The field accessor.                                                     *)
(***************************************************************************)
\* The loop of get over the keys: result = result?.[key], null as soon as
\* a lookup gives undefined.  Returns <<the loop ran to its end, value>>; a
\* lookup that throws ends the call with Thrown.
RECURSIVE Walk(_, _)
Walk(result, keys) ==
  IF Len(keys) = 0 THEN <<TRUE, result>>
  ELSE LET r == OptMember(result, keys[1])
       IN IF r.t = "thrown" THEN <<FALSE, Thrown>>
          ELSE IF r.t = "undefined" THEN <<FALSE, Null>>
          ELSE Walk(r, Tail(keys))

\* The two return statements after the loop.
unwrap(result) ==
  IF result.t = "array" /\ Len(result.a) > 0 THEN result.a[1]
  ELSE Or(result, Null)

get(obj, path) ==
  LET w == Walk(obj, split(path))
  IN IF ~w[1] THEN w[2] ELSE unwrap(w[2])

(***************************************************************************)
(* Classifier and mapper.                                                  *)
(***************************************************************************)
\* xml2js (0.5 and later) builds every element that has attributes or
\* children as a prototype-less object, so converting one to a string (in
\* join, parseInt or parseFloat) throws a TypeError.
NoPrimitive(v) == v.t = "object"

\* The four fields read for the classification text.
textFields(property) ==
  << get(property, "letting_type"), get(property, "market"),
     get(property, "description"), get(property, "title") >>

\* Predicate 1 of part_000, over the handler's locals text and bedrooms.
isStudentStrict(text, bedrooms) ==
  Includes(text, "student") \/ bedrooms.n >= 3

\* Predicate 1 of index.js, over the handler's locals text and bedrooms.
isStudentWide(text, bedrooms) ==
  \/ Includes(text, "student")
  \/ bedrooms.n >= 3
  \/ Includes(text, "letting")
  \/ Includes(text, "to let")

\* isStudent with the bedroom threshold off by one.
isStudentFour(v, text, bedrooms) ==
  IF v = "A"
  THEN \/ Includes(text, "student") \/ bedrooms.n > 3
       \/ Includes(text, "letting") \/ Includes(text, "to let")
  ELSE Includes(text, "student") \/ bedrooms.n > 3

isStudent(v, text, bedrooms) ==
  IF v = "A" THEN isStudentWide(text, bedrooms) ELSE isStudentStrict(text, bedrooms)

\* isAvailable that takes every one-digit status for available.
isAvailableLoose(webStatus) ==
  ~Truthy(webStatus) \/ Len(webStatus.s) = 1 \/ webStatus = Str("100")

isAvailable(webStatus) ==
  ~Truthy(webStatus) \/ webStatus = Str("0") \/ webStatus = Str("100")

mapType(rmType) ==
  IF rmType.n >= 1 /\ (rmType.n < 6 \/ (rmType.n = 6 /\ ~rmType.frac)) THEN "house"
  ELSE IF rmType.n = 9 /\ ~rmType.frac THEN "studio"
  ELSE "flat"

\* mapProperty: the listing, or Null when the extraction in its try block
\* throws.  The fields kept here are those derived with get, parseInt,
\* parseFloat and mapType; the remaining fields of the listing are derived
\* the same way.
mapProperty(property, agentEmail) ==
  IF property.t \in {"undefined", "null"} THEN Null
  ELSE LET address == Or(Index0(Member(property, "address")), EmptyObj)
           rm == get(property, "rm_type")
           bd == get(property, "bedrooms")
           ba == get(property, "bathrooms")
       IN IF NoPrimitive(rm) \/ NoPrimitive(bd) \/ NoPrimitive(ba) THEN Null
          ELSE [ t |-> "listing",
                 title |-> Or(Or(get(address, "display"), get(address, "street")),
                              Str("Property")),
                 description |-> Or(get(property, "description"), Str("")),
                 property_type |-> mapType(Or(parseFloat(rm), Num(0))),
                 bedrooms |-> Or(parseInt(bd), Num(0)),
                 bathrooms |-> Or(parseInt(ba), Num(0)),
                 landlord_email |-> Or(agentEmail, Undefined),
                 external_id |-> get(property, "prop_id") ]

\* What the catch block of the per-property try counts a failure under.
onCaught(v) == IF v = "A" THEN "errors" ELSE "skipped"

\* What a non-2xx answer to a property fetch is counted under: index.js
\* tests response.ok itself, axios throws into the catch block.
onNotOk(v) == IF v = "A" THEN "errors" ELSE "skipped"

\* onMapNull without the else branch of index.js.
onMapNullNone(v) == "none"

\* What a null result of mapProperty is counted under: index.js counts an
\* error, part_000 has no else branch and counts nothing.
onMapNull(v) == IF v = "A" THEN "errors" ELSE "none"

\* What a record failing a predicate is counted under.
onRejected(v) == "skipped"

\* The body of the per-property try block for one answer of the vendor.
\* resp.kind is "neterr" (the fetch rejects), "status" (non-2xx),
\* "badxml" (parseXml rejects) or "doc" (parsed, resp.doc).  The result
\* says what the iteration does: count is "pushed", "skipped", "errors" or
\* "none"; classified says whether both locals of the classifier were
\* computed, student and available are isStudent and isAvailable where
\* computed, mapped says whether mapProperty was called.
processProperty(v, resp, agentEmail) ==
  LET none == [count |-> "none", listing |-> Null, classified |-> FALSE,
               student |-> FALSE, available |-> FALSE, mapped |-> FALSE]
  IN CASE resp.kind = "neterr" -> [none EXCEPT !.count = onCaught(v)]
       [] resp.kind = "status" -> [none EXCEPT !.count = onNotOk(v)]
       [] resp.kind = "badxml" -> [none EXCEPT !.count = onCaught(v)]
       [] OTHER ->
          IF resp.doc.t \in {"null", "undefined"}
          THEN [none EXCEPT !.count = onCaught(v)]
          ELSE
            LET property == Member(resp.doc, "property")
                fields == textFields(property)
                bd == get(property, "bedrooms")
            IN IF (\E i \in 1..4 : NoPrimitive(fields[i])) \/ NoPrimitive(bd)
               THEN [none EXCEPT !.count = onCaught(v)]
               ELSE
                 LET text == toLowerCase(join(fields, " "))
                     bedrooms == Or(parseInt(bd), Num(0))
                 IN IF ~isStudent(v, text, bedrooms)
                    THEN [none EXCEPT !.count = onRejected(v), !.classified = TRUE]
                    ELSE IF ~isAvailable(get(property, "web_status"))
                    THEN [none EXCEPT !.count = onRejected(v),
                                      !.classified = TRUE, !.student = TRUE]
                    ELSE LET m == mapProperty(property, agentEmail)
                         IN [count |-> IF Truthy(m) THEN "pushed" ELSE onMapNull(v),
                             listing |-> m, classified |-> TRUE, student |-> TRUE,
                             available |-> TRUE, mapped |-> TRUE]

(***************************************************************************)
(* Bounds of the model.                                                    *)
(***************************************************************************)
\* Requests in flight at once in the concurrent specification.
NumProcs == 2
\* Requests received in one behaviour of the concurrent specification.
MaxRequests == 3
\* Steps of the clock in one behaviour of the concurrent specification,
\* and the length of one step (ms).
MaxTicks == 2
TickMs == 600000
\* The same two bounds for the sequential specification ...
SeqRequests == 4
SeqTicks == 3
\* ... and for the specification of the import pipeline.
ImportRequests == 1
ImportTicks == 1
\* References in one property-list answer.
MaxRefs == 2

(***************************************************************************)
(* Program constants.                                                      *)
(***************************************************************************)
TOKEN_TTL == 20 * 60 * 1000
TOKEN_TTL_B == 10 * 60 * 1000
PROXY_SECRET == "s3cret"
Variants == {"A", "B"}
\* Date.now() when the process starts: some positive time.
Epoch == TickMs

(***************************************************************************)
(* What the caller and the vendor may send.                                *)
(***************************************************************************)
\* The xml2js form of <name>text</name>: an array of one string.
Elem(text) == Arr(<<Str(text)>>)
\* <name attr="..">text</name>: an array of one prototype-less object.
AttrElem(text) == Arr(<<Obj(("_" :> Str(text)) @@ ("$" :> Obj(("a" :> Str("1")))))>>)

\* An object with the given <<key, value>> pairs, those whose value is
\* Undefined left out.
MkObj(pairs) ==
  LET present == {q \in pairs : q[2].t # "undefined"}
  IN Obj([k \in {q[1] : q \in present} |->
            (CHOOSE q \in present : q[1] = k)[2]])

Paths == {"/health", "/import"}
AuthHeaders ==
  { Undefined, Str("Bearer " \o PROXY_SECRET), Str("Bearer wrong"),
    Str(PROXY_SECRET), Str("bearer " \o PROXY_SECRET), Str("") }
Emails == {Undefined, Str("agent@x")}
Requests == [path : Paths, authorization : AuthHeaders, agent_email : Emails]
\* Authorized calls of /import.
ImportCalls ==
  [path : {"/import"}, authorization : {Str("Bearer " \o PROXY_SECRET)},
   agent_email : Emails]
\* One call of each kind: /health, /import without and with the secret.
FewRequests ==
  { [path |-> "/health", authorization |-> Undefined, agent_email |-> Undefined],
    [path |-> "/import", authorization |-> Str("Bearer wrong"),
     agent_email |-> Undefined],
    [path |-> "/import", authorization |-> Str("Bearer " \o PROXY_SECRET),
     agent_email |-> Undefined] }

\* One reference of the property list.
RefKinds ==
  { MkObj({<<"prop_id", Elem("101")>>, <<"url", Elem("http://v/101")>>}),
    MkObj({<<"prop_id", Elem("102")>>}),
    MkObj({<<"url", Elem("http://v/103")>>}),
    MkObj({<<"prop_id", Elem("104")>>, <<"url", Elem("")>>}),
    Str("") }

RECURSIVE SeqsUpTo(_, _)
SeqsUpTo(S, n) ==
  IF n = 0 THEN {<<>>}
  ELSE LET shorter == SeqsUpTo(S, n - 1)
       IN shorter \cup {Append(s, e) : s \in {q \in shorter : Len(q) = n - 1}, e \in S}

ListDoc(refs) == Obj([properties |-> Obj([property |-> Arr(refs)])])

\* Answers of GET {apiBase}/branch/{id}/property.
ListAnswers ==
  {[kind |-> "neterr"], [kind |-> "status"], [kind |-> "badxml"]}
  \cup {[kind |-> "doc", doc |-> Null],
        [kind |-> "doc", doc |-> Obj([properties |-> Str("")])]}
  \cup {[kind |-> "doc", doc |-> ListDoc(refs)] : refs \in SeqsUpTo(RefKinds, MaxRefs)}

PropertyDoc(lt, mk, ds, ti, bd, ws, rm) ==
  Obj([property |->
    MkObj({ <<"prop_id", Elem("101")>>,
            <<"address", Arr(<<MkObj({<<"display", Elem("1 High St")>>})>>)>>,
            <<"letting_type", lt>>, <<"market", mk>>, <<"description", ds>>,
            <<"title", ti>>, <<"bedrooms", bd>>, <<"web_status", ws>>,
            <<"rm_type", rm>> })])

FailedAnswers == {[kind |-> "neterr"], [kind |-> "status"], [kind |-> "badxml"]}

\* Documents on which the per-property code leaves its straight path.
OddDocs ==
  { Null,
    Obj([other |-> Str("")]),
    Obj([property |-> Str("student letting")]),
    PropertyDoc(Elem("Student"), Undefined, Undefined, Undefined, Elem("4"),
                Undefined, AttrElem("3")),
    PropertyDoc(Undefined, Undefined, AttrElem("student flat"), Undefined,
                Elem("4"), Undefined, Elem("3")),
    PropertyDoc(Undefined, Undefined, Undefined, Undefined, AttrElem("4"),
                Elem("1"), Elem("3")),
    PropertyDoc(Undefined, Undefined, Undefined, Undefined, Elem("5"),
                Elem("0"), Elem("9")),
    PropertyDoc(Undefined, Undefined, Undefined, Undefined, Elem("3"),
                Elem("100"), Elem("6.5")) }

\* The classification text fields <<letting_type, market, description,
\* title>>: no keyword, each keyword alone (in either case), "to let"
\* spanning two adjacent fields, and "to" and "let" two fields apart.
TextCombos ==
  { <<Undefined, Undefined, Undefined, Undefined>>,
    <<Undefined, Elem("nice"), Undefined, Undefined>>,
    <<Elem("Student"), Undefined, Undefined, Undefined>>,
    <<Undefined, Undefined, Undefined, Elem("STUDENT house")>>,
    <<Undefined, Undefined, Elem("Flat Letting"), Undefined>>,
    <<Undefined, Undefined, Elem("Flat to let"), Undefined>>,
    <<Elem("to"), Elem("let"), Undefined, Undefined>>,
    <<Elem("to"), Undefined, Elem("let"), Undefined>> }

\* Answers of GET {propertyUrl}: the grid of classification inputs.
GridDocs ==
  { PropertyDoc(tc[1], tc[2], tc[3], tc[4], bd, ws, Elem("3")) :
      tc \in TextCombos,
      bd \in {Undefined, Elem("2"), Elem("3"), Elem("x")},
      ws \in {Undefined, Elem("1")} }
  \cup
  { PropertyDoc(lt, Undefined, Undefined, Undefined, bd, ws, Elem("3")) :
      lt \in {Undefined, Elem("Student")},
      bd \in {Elem("2"), Elem("3")},
      ws \in {Elem(""), Elem("0"), Elem("100"), Elem("1"), Elem("10")} }

Details ==
  FailedAnswers \cup {[kind |-> "doc", doc |-> d] : d \in GridDocs \cup OddDocs}

\* A handful of answers, for the specifications about the token cache.
SmallDetails ==
  {[kind |-> "status"]}
  \cup {[kind |-> "doc", doc |-> d] :
          d \in { PropertyDoc(Elem("Student"), Undefined, Undefined, Undefined,
                              Elem("1"), Undefined, Elem("3")) }}

SmallLists ==
  { [kind |-> "status"],
    [kind |-> "doc",
     doc |-> ListDoc(<< MkObj({<<"prop_id", Elem("101")>>,
                               <<"url", Elem("http://v/101")>>}) >>)] }

\* Answers of GET {apiBase}/branch: the fetch rejects, a non-2xx status,
\* or a 2xx answer whose token header is absent, empty or a new token.
AuthAnswers ==
  { [kind |-> "neterr"], [kind |-> "status"],
    [kind |-> "ok", header |-> "absent"], [kind |-> "ok", header |-> "empty"],
    [kind |-> "ok", header |-> "token"] }

(***************************************************************************)
(* State.                                                                  *)
(***************************************************************************)
VARIABLES
  variant,        \* which source file is running: "A" or "B"
  now,            \* Date.now()
  cachedToken,    \* module variable: Null or the token
  tokenTimestamp, \* module variable of index.js: Null or a time
  tokenExpiry,    \* module variable of part_000: Null or a time
  issued,         \* vendor: how many tokens it has issued
  pc,             \* per request slot: "idle", "token", "list", "loop", "detail", "done"
  req,            \* the request of the slot
  callNow,        \* getToken's local `now`
  token,          \* the handler's local `token`
  propertyList,   \* the handler's local list of references
  idx,            \* position of the for loop in propertyList (1-based)
  processedProperties, skipped, errors,
  res,            \* the response sent: Null, or [status, body]
  \* history variables
  served,         \* requests received so far
  ticks,          \* steps of the clock so far
  authRequests,   \* GET {apiBase}/branch requests issued so far
  upstream,       \* per slot: upstream calls issued by its request, by kind
  cacheWrites,    \* per slot: writes to the token cache by its request
  log,            \* per slot: one entry per finished loop iteration
  lastResp,       \* per slot: the answer to the property fetch just processed
  tokenVia,       \* per slot: how getToken ended: "none", "cache", "refresh", "failed"
  listVia,        \* per slot: how the list fetch ended: "none", "ok", "failed"
  completed,      \* the <<token, time>> pairs stored by completed refreshes
  lastRefresh,    \* Null, or the token of the last completed refresh
  lastFailed,     \* whether the last getToken call to end has failed
  \* one call of the field accessor
  getPc,          \* "off", "ready" or "done"
  getObj, getPath,\* the arguments of the call
  getOut          \* what the call returned

cache == <<cachedToken, tokenTimestamp, tokenExpiry>>
locals == <<callNow, token, propertyList, idx, processedProperties, skipped, errors>>
loopVars == <<propertyList, idx, processedProperties, skipped, errors>>
tokenHist == <<completed, lastRefresh, lastFailed>>
getVars == <<getPc, getObj, getPath, getOut>>
vars == << variant, now, cachedToken, tokenTimestamp, tokenExpiry, issued, pc,
           req, callNow, token, propertyList, idx, processedProperties,
           skipped, errors, res, served, ticks, authRequests, upstream,
           cacheWrites, log, lastResp, tokenVia, listVia, completed,
           lastRefresh, lastFailed, getPc, getObj, getPath, getOut >>

Procs == 1..NumProcs
NoCalls == [auth |-> 0, list |-> 0, detail |-> 0]

InitServer ==
  /\ variant \in Variants
  /\ now = Epoch
  /\ cachedToken = Null /\ tokenTimestamp = Null /\ tokenExpiry = Null
  /\ issued = 0
  /\ pc = [p \in Procs |-> "idle"]
  /\ req = [p \in Procs |-> Null]
  /\ callNow = [p \in Procs |-> 0]
  /\ token = [p \in Procs |-> Undefined]
  /\ propertyList = [p \in Procs |-> <<>>]
  /\ idx = [p \in Procs |-> 1]
  /\ processedProperties = [p \in Procs |-> <<>>]
  /\ skipped = [p \in Procs |-> 0]
  /\ errors = [p \in Procs |-> 0]
  /\ res = [p \in Procs |-> Null]
  /\ served = 0 /\ ticks = 0 /\ authRequests = 0
  /\ upstream = [p \in Procs |-> NoCalls]
  /\ cacheWrites = [p \in Procs |-> 0]
  /\ log = [p \in Procs |-> <<>>]
  /\ lastResp = [p \in Procs |-> Null]
  /\ tokenVia = [p \in Procs |-> "none"]
  /\ listVia = [p \in Procs |-> "none"]
  /\ completed = {} /\ lastRefresh = Null /\ lastFailed = FALSE

Init ==
  /\ InitServer
  /\ getPc = "off" /\ getObj = Null /\ getPath = "" /\ getOut = Null

(***************************************************************************)
(* The bearer gate.                                                        *)
(***************************************************************************)
\* authorized that only tests the scheme of the header.
authorizedLoose(authHeader) ==
  authHeader.t = "string" /\ Len(authHeader.s) >= 7
  /\ SubSeq(authHeader.s, 1, 7) = "Bearer "

authorized(authHeader) ==
  LET expectedAuth == Str("Bearer " \o PROXY_SECRET)
  IN ~(~Truthy(authHeader) \/ authHeader # expectedAuth)

\* index.js: the middleware lets /health through and tests every other
\* path; part_000: only /import carries the authenticate middleware.
gate(r) == r.path = "/health" \/ authorized(r.authorization)

unauthorizedBody(v) ==
  IF v = "A" THEN [error |-> "Unauthorized"]
  ELSE [success |-> FALSE, error |-> "Unauthorized"]

(***************************************************************************)
(* getToken.                                                               *)
(***************************************************************************)
\* cacheFresh with the comparison off by one.
cacheFreshLe(v, tok, stamp, expiry, t) ==
  IF v = "A"
  THEN Truthy(tok) /\ Truthy(stamp) /\ t - stamp.n <= TOKEN_TTL
  ELSE Truthy(tok) /\ Truthy(expiry) /\ t <= expiry.n

\* The test at the head of getToken, at time t.
cacheFresh(v, tok, stamp, expiry, t) ==
  IF v = "A"
  THEN Truthy(tok) /\ Truthy(stamp) /\ t - stamp.n < TOKEN_TTL
  ELSE Truthy(tok) /\ Truthy(expiry) /\ t < expiry.n

\* The time getToken stores beside a new token: index.js stores the `now`
\* it read when the call began, part_000 the expiry counted from the time
\* the answer arrived.
stampOf(v, began, arrived) ==
  IF v = "A" THEN Num(began) ELSE Num(arrived + TOKEN_TTL_B)

\* storeToken that stores the token and leaves the time.
storeTokenTorn(v, tok, began, arrived, old) == <<tok, old[2], old[3]>>

\* The values of <<cachedToken, tokenTimestamp, tokenExpiry>> after a
\* successful refresh.
storeToken(v, tok, began, arrived, old) ==
  IF v = "A" THEN <<tok, stampOf(v, began, arrived), old[3]>>
  ELSE <<tok, old[2], stampOf(v, began, arrived)>>

\* keepToken that clears the cache on a failure.
dropToken(old) == <<Null, Null, Null>>

\* The values of the cache after a failed refresh: the throw leaves them.
keepToken(old) == old

\* Whether the answer of the vendor gives getToken a token.
gotToken(ans) == ans.kind = "ok" /\ ans.header = "token"

failBody == [success |-> FALSE]

(***************************************************************************)
(* Actions.                                                                *)
(***************************************************************************)
Tick(maxTicks) ==
  /\ ticks < maxTicks
  /\ now' = now + TickMs
  /\ ticks' = ticks + 1
  /\ UNCHANGED << variant, cache, issued, pc, req, locals, res, served,
                  authRequests, upstream, cacheWrites, log, lastResp,
                  tokenVia, listVia, tokenHist, getVars >>

\* A request arrives in a free slot: the gate, and for an authorized
\* /import the handler up to its first await, which is in getToken (cache
\* miss: the fetch of a token) or in fetchWithToken (cache hit).
Receive(p, requests, maxRequests) ==
  /\ pc[p] \in {"idle", "done"}
  /\ served < maxRequests
  /\ served' = served + 1
  /\ \E r \in requests :
       /\ req' = [req EXCEPT ![p] = r]
       /\ callNow' = [callNow EXCEPT ![p] = now]
       /\ propertyList' = [propertyList EXCEPT ![p] = <<>>]
       /\ idx' = [idx EXCEPT ![p] = 1]
       /\ processedProperties' = [processedProperties EXCEPT ![p] = <<>>]
       /\ skipped' = [skipped EXCEPT ![p] = 0]
       /\ errors' = [errors EXCEPT ![p] = 0]
       /\ log' = [log EXCEPT ![p] = <<>>]
       /\ lastResp' = [lastResp EXCEPT ![p] = Null]
       /\ cacheWrites' = [cacheWrites EXCEPT ![p] = 0]
       /\ listVia' = [listVia EXCEPT ![p] = "none"]
       /\ IF ~gate(r)
          THEN /\ res' = [res EXCEPT ![p] =
                            [status |-> 401, body |-> unauthorizedBody(variant)]]
               /\ pc' = [pc EXCEPT ![p] = "done"]
               /\ token' = [token EXCEPT ![p] = Undefined]
               /\ upstream' = [upstream EXCEPT ![p] = NoCalls]
               /\ tokenVia' = [tokenVia EXCEPT ![p] = "none"]
               /\ UNCHANGED <<authRequests, lastFailed>>
          ELSE IF r.path = "/health"
          THEN /\ res' = [res EXCEPT ![p] = [status |-> 200, body |-> [status |-> "ok"]]]
               /\ pc' = [pc EXCEPT ![p] = "done"]
               /\ token' = [token EXCEPT ![p] = Undefined]
               /\ upstream' = [upstream EXCEPT ![p] = NoCalls]
               /\ tokenVia' = [tokenVia EXCEPT ![p] = "none"]
               /\ UNCHANGED <<authRequests, lastFailed>>
          ELSE IF cacheFresh(variant, cachedToken, tokenTimestamp, tokenExpiry, now)
          THEN /\ token' = [token EXCEPT ![p] = cachedToken]
               /\ res' = [res EXCEPT ![p] = Null]
               /\ pc' = [pc EXCEPT ![p] = "list"]
               /\ upstream' = [upstream EXCEPT ![p] = [NoCalls EXCEPT !.list = 1]]
               /\ tokenVia' = [tokenVia EXCEPT ![p] = "cache"]
               /\ lastFailed' = FALSE
               /\ UNCHANGED authRequests
          ELSE /\ token' = [token EXCEPT ![p] = Undefined]
               /\ res' = [res EXCEPT ![p] = Null]
               /\ pc' = [pc EXCEPT ![p] = "token"]
               /\ upstream' = [upstream EXCEPT ![p] = [NoCalls EXCEPT !.auth = 1]]
               /\ tokenVia' = [tokenVia EXCEPT ![p] = "none"]
               /\ authRequests' = authRequests + 1
               /\ UNCHANGED lastFailed
  /\ UNCHANGED << variant, now, cache, issued, ticks, completed, lastRefresh,
                  getVars >>

\* The vendor answers the token request: getToken throws (the handler
\* answers 500), or stores the token and the handler goes on to fetch the
\* property list.
AuthResponse(p) ==
  /\ pc[p] = "token"
  /\ \E ans \in AuthAnswers :
       IF gotToken(ans)
       THEN LET tok == Str("tok" \o ToString(issued + 1))
                new == storeToken(variant, tok, callNow[p], now, cache)
            IN /\ issued' = issued + 1
               /\ cachedToken' = new[1]
               /\ tokenTimestamp' = new[2]
               /\ tokenExpiry' = new[3]
               /\ token' = [token EXCEPT ![p] = tok]
               /\ pc' = [pc EXCEPT ![p] = "list"]
               /\ upstream' = [upstream EXCEPT ![p].list = @ + 1]
               /\ cacheWrites' = [cacheWrites EXCEPT ![p] = @ + 1]
               /\ tokenVia' = [tokenVia EXCEPT ![p] = "refresh"]
               /\ completed' = completed \cup
                                 {<<tok, IF variant = "A" THEN callNow[p]
                                         ELSE now + TOKEN_TTL_B>>}
               /\ lastRefresh' = tok
               /\ lastFailed' = FALSE
               /\ UNCHANGED res
       ELSE LET new == keepToken(cache)
            IN /\ cachedToken' = new[1]
               /\ tokenTimestamp' = new[2]
               /\ tokenExpiry' = new[3]
               /\ res' = [res EXCEPT ![p] = [status |-> 500, body |-> failBody]]
               /\ pc' = [pc EXCEPT ![p] = "done"]
               /\ tokenVia' = [tokenVia EXCEPT ![p] = "failed"]
               /\ cacheWrites' = [cacheWrites EXCEPT ![p] =
                                    IF new = cache THEN @ ELSE @ + 1]
               /\ lastFailed' = TRUE
               /\ UNCHANGED <<issued, token, upstream, completed, lastRefresh>>
  /\ UNCHANGED << variant, now, req, callNow, loopVars, served, ticks,
                  authRequests, log, lastResp, listVia, getVars >>

\* propertiesData?.properties?.property || [], made an array.
toPropertyList(doc) ==
  LET properties ==
        Or(OptMember(OptMember(doc, "properties"), "property"), Arr(<<>>))
  IN IF properties.t = "array" THEN properties.a ELSE <<properties>>

\* The vendor answers the property-list request: a failure answers 500,
\* a parsed document starts the loop.
ListResponse(p, answers) ==
  /\ pc[p] = "list"
  /\ \E ans \in answers :
       IF ans.kind = "doc"
       THEN /\ propertyList' = [propertyList EXCEPT ![p] = toPropertyList(ans.doc)]
            /\ pc' = [pc EXCEPT ![p] = "loop"]
            /\ listVia' = [listVia EXCEPT ![p] = "ok"]
            /\ UNCHANGED res
       ELSE /\ res' = [res EXCEPT ![p] = [status |-> 500, body |-> failBody]]
            /\ pc' = [pc EXCEPT ![p] = "done"]
            /\ listVia' = [listVia EXCEPT ![p] = "failed"]
            /\ UNCHANGED propertyList
  /\ UNCHANGED << variant, now, cache, issued, req, callNow, token, idx,
                  processedProperties, skipped, errors, served, ticks,
                  authRequests, upstream, cacheWrites, log, lastResp,
                  tokenVia, tokenHist, getVars >>

\* refValid that tests prop_id only.
refValidIdOnly(propertyRef) ==
  Truthy(Index0(Member(propertyRef, "prop_id")))

\* The test at the head of the loop body.
refValid(propertyRef) ==
  LET propId == Index0(Member(propertyRef, "prop_id"))
      propertyUrl == Index0(Member(propertyRef, "url"))
  IN ~(~Truthy(propId) \/ ~Truthy(propertyUrl))

\* The body of the 200 answer; part_000 has no errors field.
successBody(v, props, found, nskipped, nerrors) ==
  IF v = "A"
  THEN [success |-> TRUE, properties |-> props, total |-> Len(props),
        total_found |-> found, skipped |-> nskipped, errors |-> nerrors]
  ELSE [success |-> TRUE, properties |-> props, total |-> Len(props),
        total_found |-> found, skipped |-> nskipped]

\* The loop, up to its next await: the end of the list (answer 200), a
\* reference without prop_id or url (skipped), or a property fetch.
LoopNext(p) ==
  /\ pc[p] = "loop"
  /\ IF idx[p] > Len(propertyList[p])
     THEN /\ res' = [res EXCEPT ![p] =
                       [status |-> 200,
                        body |-> successBody(variant, processedProperties[p],
                                             Len(propertyList[p]), skipped[p],
                                             errors[p])]]
          /\ pc' = [pc EXCEPT ![p] = "done"]
          /\ UNCHANGED <<idx, skipped, upstream, log>>
     ELSE IF ~refValid(propertyList[p][idx[p]])
     THEN /\ skipped' = [skipped EXCEPT ![p] = @ + 1]
          /\ idx' = [idx EXCEPT ![p] = @ + 1]
          /\ log' = [log EXCEPT ![p] =
                       Append(@, [fetched |-> FALSE, count |-> "skipped",
                                  classified |-> FALSE, student |-> FALSE,
                                  available |-> FALSE, mapped |-> FALSE,
                                  at |-> 0])]
          /\ UNCHANGED <<res, pc, upstream>>
     ELSE /\ pc' = [pc EXCEPT ![p] = "detail"]
          /\ upstream' = [upstream EXCEPT ![p].detail = @ + 1]
          /\ UNCHANGED <<res, idx, skipped, log>>
  /\ lastResp' = [lastResp EXCEPT ![p] = Null]
  /\ UNCHANGED << variant, now, cache, issued, req, callNow, token,
                  propertyList, processedProperties, errors, served, ticks,
                  authRequests, cacheWrites, tokenVia, listVia, tokenHist,
                  getVars >>

\* The vendor answers a property fetch: the rest of the loop body.
DetailResponse(p, answers) ==
  /\ pc[p] = "detail"
  /\ \E resp \in answers :
       LET out == processProperty(variant, resp, req[p].agent_email)
       IN /\ processedProperties' =
               [processedProperties EXCEPT ![p] =
                  IF out.count = "pushed" THEN Append(@, out.listing) ELSE @]
          /\ skipped' = [skipped EXCEPT ![p] =
                           IF out.count = "skipped" THEN @ + 1 ELSE @]
          /\ errors' = [errors EXCEPT ![p] =
                          IF out.count = "errors" THEN @ + 1 ELSE @]
          /\ log' = [log EXCEPT ![p] =
                       Append(@, [fetched |-> TRUE, count |-> out.count,
                                  classified |-> out.classified,
                                  student |-> out.student,
                                  available |-> out.available,
                                  mapped |-> out.mapped,
                                  at |-> IF out.count = "pushed"
                                         THEN Len(processedProperties[p]) + 1
                                         ELSE 0])]
          /\ lastResp' = [lastResp EXCEPT ![p] = resp]
  /\ idx' = [idx EXCEPT ![p] = @ + 1]
  /\ pc' = [pc EXCEPT ![p] = "loop"]
  /\ UNCHANGED << variant, now, cache, issued, req, callNow, token,
                  propertyList, res, served, ticks, authRequests, upstream,
                  cacheWrites, tokenVia, listVia, tokenHist, getVars >>

NextOf(procs, requests, lists, details, maxRequests, maxTicks) ==
  \/ Tick(maxTicks)
  \/ \E p \in procs : Receive(p, requests, maxRequests)
  \/ \E p \in procs : AuthResponse(p)
  \/ \E p \in procs : ListResponse(p, lists)
  \/ \E p \in procs : LoopNext(p)
  \/ \E p \in procs : DetailResponse(p, details)

\* Concurrent requests, a handful of requests and vendor answers.
Next == NextOf(Procs, FewRequests, SmallLists, SmallDetails, MaxRequests, MaxTicks)
Spec == Init /\ [][Next]_vars

\* One request at a time (the requests of a behaviour are sequential),
\* every kind of request.
NextSeq == NextOf({1}, Requests, SmallLists, SmallDetails, SeqRequests, SeqTicks)
SpecSeq == Init /\ [][NextSeq]_vars

\* One authorized /import, every list and every property answer.
NextImport ==
  NextOf({1}, ImportCalls, ListAnswers, Details, ImportRequests, ImportTicks)
SpecImport == Init /\ [][NextImport]_vars

(***************************************************************************)
(* One call of get, on every tree and path of a bounded family.            *)
(***************************************************************************)
\* Leaves: what a key may hold at the bottom of a tree.
Leaves ==
  { Null, Str(""), Str("v"), Num(0), Arr(<<>>), Arr(<<Str("v")>>),
    Arr(<<Str(""), Str("w")>>) }

\* Trees whose objects are nested along `keys`: a value under keys[1] is a
\* leaf, an object on the rest of the keys, or an array of one such object
\* (the form xml2js gives an element).
RECURSIVE Trees(_)
Trees(keys) ==
  IF Len(keys) = 0 THEN Leaves
  ELSE LET inner == Trees(Tail(keys))
           here == {EmptyObj} \cup {Obj(keys[1] :> x) : x \in inner}
       IN Leaves \cup here \cup {Arr(<<h>>) : h \in here}

GetKeys == <<"a", "b", "c">>
GetObjects == {Undefined} \cup Trees(GetKeys)
GetPaths == {"a", "a.b", "a.b.c", "a.0.b", "a.0.b.0.c", "a.length", "b", "", "a..b"}

InitGet ==
  /\ InitServer
  /\ getPc = "ready"
  /\ getObj \in GetObjects
  /\ getPath \in GetPaths
  /\ getOut = Null

CallGet ==
  /\ getPc = "ready"
  /\ getOut' = get(getObj, getPath)
  /\ getPc' = "done"
  /\ UNCHANGED << variant, now, cache, issued, pc, req, locals, res, served,
                  ticks, authRequests, upstream, cacheWrites, log, lastResp,
                  tokenVia, listVia, tokenHist, getObj, getPath >>

NextGet == CallGet
SpecGet == InitGet /\ [][NextGet]_vars

(***************************************************************************)
(* Properties.                                                             *)
(***************************************************************************)
Secret == Str("Bearer " \o PROXY_SECRET)
IsImportCall(r) == r # Null /\ r.path = "/import" /\ r.authorization = Secret

\* The time the cache holds beside its token, and the life of a token.
obtainedAt == IF variant = "A" THEN tokenTimestamp.n ELSE tokenExpiry.n - TOKEN_TTL_B
TTL == IF variant = "A" THEN TOKEN_TTL ELSE TOKEN_TTL_B

\* A step in which slot p receives a request that calls getToken.
CallsGetToken(p) == served' = served + 1 /\ pc'[p] \in {"token", "list"}

\* C1: token reuse.  Once a refresh has filled the cache, a getToken call
\* made while now - obtainedAt < TTL returns the token of that refresh and
\* issues no request to {apiBase}/branch; a call made once the TTL has
\* elapsed issues exactly one new request.
C1_TokenReuse ==
  [][\A p \in Procs :
       (CallsGetToken(p) /\ lastRefresh # Null) =>
         IF now - obtainedAt < TTL
         THEN /\ token'[p] = lastRefresh
              /\ pc'[p] = "list"
              /\ authRequests' = authRequests
              /\ upstream'[p].auth = 0
         ELSE /\ pc'[p] = "token"
              /\ authRequests' = authRequests + 1
              /\ upstream'[p].auth = 1]_vars

\* Two calls, the second within the TTL of the first: one request.
C1_Witness ==
  /\ served >= 2 /\ authRequests = 1 /\ ticks >= 1
  /\ tokenVia[1] = "cache" /\ token[1] = lastRefresh

\* C2: an /import request without exactly "Bearer <PROXY_SECRET>" is
\* answered 401 with no upstream call and no write to the token cache;
\* /health is answered 200 whatever its Authorization header.
C2_Gate ==
  \A p \in Procs :
    req[p] # Null =>
      /\ (req[p].path = "/import" /\ req[p].authorization # Secret) =>
           /\ pc[p] = "done" /\ res[p].status = 401
           /\ upstream[p] = NoCalls
           /\ cacheWrites[p] = 0
           /\ tokenVia[p] = "none"
      /\ req[p].path = "/health" =>
           /\ pc[p] = "done" /\ res[p].status = 200
           /\ upstream[p] = NoCalls

\* A request with a wrong secret rejected while a token is cached.
C2_Witness ==
  /\ req[1] # Null /\ req[1].path = "/import"
  /\ req[1].authorization = Str("Bearer wrong")
  /\ res[1] # Null /\ res[1].status = 401
  /\ cachedToken # Null /\ authRequests = 1

\* A reference of the list without a prop_id or without a url element.
Missing(ref) ==
  ref.t # "object" \/ "prop_id" \notin DOMAIN ref.o \/ "url" \notin DOMAIN ref.o

CountOf(entries, what) == Cardinality({i \in 1..Len(entries) : entries[i].count = what})

\* C3: a reference missing prop_id or url is never fetched, classified or
\* mapped and is counted once under skipped (there are as many property
\* fetches as fetched entries); total_found still counts it.
C3_MissingRef ==
  \A p \in Procs :
    /\ \A i \in 1..Len(log[p]) :
         Missing(propertyList[p][i]) =>
           /\ ~log[p][i].fetched /\ ~log[p][i].classified /\ ~log[p][i].mapped
           /\ log[p][i].count = "skipped"
    /\ pc[p] = "detail" => ~Missing(propertyList[p][idx[p]])
    /\ upstream[p].detail =
         Cardinality({i \in 1..Len(log[p]) : log[p][i].fetched})
         + (IF pc[p] = "detail" THEN 1 ELSE 0)
    /\ skipped[p] = CountOf(log[p], "skipped")
    /\ (res[p] # Null /\ res[p].status = 200 /\ IsImportCall(req[p])) =>
         /\ res[p].body.total_found = Len(propertyList[p])
         /\ res[p].body.skipped >=
              Cardinality({i \in 1..Len(propertyList[p]) : Missing(propertyList[p][i])})

\* One valid reference and one without url: total_found 2, skipped >= 1.
C3_Witness ==
  /\ res[1] # Null /\ res[1].status = 200 /\ IsImportCall(req[1])
  /\ Len(propertyList[1]) = 2
  /\ ~Missing(propertyList[1][1]) /\ Missing(propertyList[1][2])
  /\ propertyList[1][2].t = "object" /\ "prop_id" \in DOMAIN propertyList[1][2].o
  /\ res[1].body.total_found = 2 /\ res[1].body.skipped = 1
  /\ res[1].body.total = 1 /\ upstream[1].detail = 1

\* C4: an authorized /import answers 500 exactly when the token, the list
\* fetch or the list parse fails; every per-property failure (fetch, parse,
\* mapping) is counted once under skipped or errors and the request still
\* answers 200 for the whole list.
C4_Containment ==
  \A p \in Procs :
    /\ \A i \in 1..Len(log[p]) :
         log[p][i].count \in {"pushed", "skipped", "errors"}
    /\ (pc[p] = "done" /\ IsImportCall(req[p])) =>
         /\ res[p].status \in {200, 500}
         /\ res[p].status = 500 <=> (tokenVia[p] = "failed" \/ listVia[p] = "failed")
         /\ res[p].status = 200 =>
              /\ res[p].body.success
              /\ Len(log[p]) = Len(propertyList[p])

\* The last entry of the log of slot p, and the property it is about.
LastEntry(p) == log[p][Len(log[p])]
LastProperty(p) == Member(lastResp[p].doc, "property")
Classified(p) ==
  /\ lastResp[p] # Null /\ lastResp[p].kind = "doc"
  /\ Len(log[p]) > 0 /\ LastEntry(p).classified

\* The classification text and bedroom count of a property, as stated.
TextOf(property) == toLowerCase(join(textFields(property), " "))
BedroomsOf(property) ==
  LET b == parseInt(get(property, "bedrooms")) IN IF b.t = "NaN" THEN 0 ELSE b.n
HasKeyword(property) ==
  \/ Includes(TextOf(property), "student")
  \/ Includes(TextOf(property), "letting")
  \/ Includes(TextOf(property), "to let")

\* C5 as stated: in both variants predicate 1 is true exactly when the text
\* contains "student", "letting" or "to let", or bedrooms >= 3.
C5_Stated ==
  \A p \in Procs :
    Classified(p) =>
      (LastEntry(p).student <=>
         (HasKeyword(LastProperty(p)) \/ BedroomsOf(LastProperty(p)) >= 3))

\* C5, amended: that holds of index.js; in part_000 predicate 1 is true
\* exactly when the text contains "student" or bedrooms >= 3.  In both, a
\* record that fails predicate 1 is skipped without being mapped (so a
\* record with 2 bedrooms and no keyword), text with "student" passes for
\* every bedroom count, and 3 bedrooms pass without a keyword.
C5_Student ==
  \A p \in Procs :
    Classified(p) =>
      LET property == LastProperty(p)
          e == LastEntry(p)
      IN /\ variant = "A" =>
              (e.student <=> (HasKeyword(property) \/ BedroomsOf(property) >= 3))
         /\ variant = "B" =>
              (e.student <=> (Includes(TextOf(property), "student")
                              \/ BedroomsOf(property) >= 3))
         /\ Includes(TextOf(property), "student") => e.student
         /\ BedroomsOf(property) >= 3 => e.student
         /\ (BedroomsOf(property) < 3 /\ ~HasKeyword(property)) => ~e.student
         /\ ~e.student => (e.count = "skipped" /\ ~e.mapped)

\* part_000 skips a record whose text says "letting" and has 2 bedrooms.
C5_Witness ==
  /\ variant = "B" /\ Classified(1)
  /\ Includes(TextOf(LastProperty(1)), "letting")
  /\ BedroomsOf(LastProperty(1)) = 2
  /\ ~LastEntry(1).student /\ LastEntry(1).count = "skipped"

\* The text of the web_status element of a property; "" when there is none.
WebStatusOf(property) ==
  IF property.t = "object" /\ "web_status" \in DOMAIN property.o
     /\ property.o["web_status"].a[1].t = "string"
  THEN property.o["web_status"].a[1].s
  ELSE ""

\* The web_status of the last answer of slot p; "" when it has none.
LastWebStatus(p) ==
  IF lastResp[p].kind = "doc" /\ lastResp[p].doc.t = "object"
  THEN WebStatusOf(LastProperty(p)) ELSE ""

\* C6 as stated: every fetched record whose web_status is present and
\* neither "0" nor "100" is counted under skipped with no error raised.
C6_Stated ==
  \A p \in Procs :
    (lastResp[p] # Null /\ Len(log[p]) > 0
     /\ LastWebStatus(p) \notin {"", "0", "100"}) =>
      /\ ~LastEntry(p).mapped
      /\ LastEntry(p).count = "skipped"
      /\ LastEntry(p).classified

\* C6, amended: only a record that passed both predicates is mapped and
\* listed.  A record whose web_status is present and neither "0" nor "100"
\* is never mapped nor listed; it is counted under skipped unless reading
\* its text fields or bedrooms throws before the availability test, and
\* then the catch block counts it (errors in index.js, skipped in
\* part_000); absent, empty, "0" and "100" mean available.
C6_Available ==
  \A p \in Procs :
    (lastResp[p] # Null /\ Len(log[p]) > 0) =>
      LET e == LastEntry(p)
          ws == LastWebStatus(p)
      IN /\ (e.mapped \/ e.count = "pushed") => (e.student /\ e.available)
         /\ e.count = "pushed" =>
              (e.mapped /\ ws \in {"", "0", "100"}
               /\ Len(processedProperties[p]) = e.at)
         /\ ws \notin {"", "0", "100"} =>
              /\ ~e.mapped /\ e.count # "pushed" /\ ~e.available
              /\ e.count = (IF e.classified THEN "skipped" ELSE onCaught(variant))
         /\ (e.student /\ ws \in {"", "0", "100"}) => (e.available /\ e.mapped)

\* A record that passes predicate 1 with web_status "1": skipped.
C6_Witness ==
  /\ Classified(1) /\ LastEntry(1).student
  /\ WebStatusOf(LastProperty(1)) = "1"
  /\ LastEntry(1).count = "skipped" /\ ~LastEntry(1).mapped
  /\ errors[1] = 0

\* The walk the stated accessor makes: a non-empty array is replaced by
\* its first element before each lookup.
RECURSIVE StatedWalk(_, _)
StatedWalk(cur, keys) ==
  IF Len(keys) = 0 THEN <<TRUE, cur>>
  ELSE LET c == IF cur.t = "array" /\ Len(cur.a) > 0 THEN cur.a[1] ELSE cur
           r == OptMember(c, keys[1])
       IN IF r.t = "undefined" THEN <<FALSE, Null>> ELSE StatedWalk(r, Tail(keys))

\* C7 as stated: get replaces an array by its first element before it
\* descends to the next segment, returns null at the first absent segment
\* and never throws.
C7_Stated ==
  getPc = "done" =>
    LET w == StatedWalk(getObj, split(getPath))
    IN /\ getOut # Thrown
       /\ getOut = (IF w[1] THEN unwrap(w[2]) ELSE Null)

\* C7, what get does instead: it looks every segment up as a plain
\* property of the current value, arrays included (no first-element
\* substitution between segments); it returns null if any lookup gives
\* undefined; otherwise the last value, a non-empty array replaced by its
\* first element and a falsy value by null; it never throws.
C7_Get ==
  getPc = "done" =>
    LET keys == split(getPath)
        n == Len(keys)
        chain[i \in 0..n] ==
          IF i = 0 THEN getObj
          ELSE IF chain[i - 1].t \in {"undefined", "null"} THEN Undefined
          ELSE Member(chain[i - 1], keys[i])
        last == chain[n]
    IN /\ getOut # Thrown
       /\ getOut # Undefined
       /\ (\E i \in 1..n : chain[i].t = "undefined") => getOut = Null
       /\ (\A i \in 1..n : chain[i].t # "undefined") =>
            getOut = (IF last.t = "array" /\ Len(last.a) > 0 THEN last.a[1]
                      ELSE IF Truthy(last) THEN last ELSE Null)
       /\ (\E i \in 1..(n - 1) :
             chain[i].t = "array" /\ keys[i + 1] \notin {"0", "length"})
            => getOut = Null

\* get(mapping, "a.b") on the xml2js form {a: [{b: ["v"]}]} gives null.
C7_Witness ==
  /\ getPc = "done" /\ getPath = "a.b"
  /\ getObj = Obj("a" :> Arr(<<Obj("b" :> Arr(<<Str("v")>>))>>))
  /\ getOut = Null

\* The time beside the cached token.
stampNow == IF variant = "A" THEN tokenTimestamp ELSE tokenExpiry
IssuedTokens == {Str("tok" \o ToString(k)) : k \in 1..issued}

\* C8: under every interleaving the token and its time are both unset or
\* were both stored by one completed refresh, and a token a getToken call
\* returned is one the vendor issued.
C8_Race ==
  /\ \/ (cachedToken = Null /\ tokenTimestamp = Null /\ tokenExpiry = Null)
     \/ /\ cachedToken \in IssuedTokens
        /\ stampNow # Null
        /\ <<cachedToken, stampNow.n>> \in completed
  /\ variant = "A" => tokenExpiry = Null
  /\ variant = "B" => tokenTimestamp = Null
  /\ \A p \in Procs :
       /\ tokenVia[p] \in {"cache", "refresh"} <=> token[p] # Undefined
       /\ token[p] # Undefined => token[p] \in IssuedTokens

\* Two refreshes in flight at once, past an expired token; both store.
C8_Witness ==
  /\ issued = 3
  /\ tokenVia[1] = "refresh" /\ tokenVia[2] = "refresh"
  /\ token[1] # token[2]
  /\ callNow[1] = callNow[2]
  /\ cachedToken \in {token[1], token[2]}

\* C9: a failed refresh (non-2xx, no token header) fails the call after
\* one request, with no retry, and leaves the token and its time as they
\* were; the next getToken call issues a new request.
C9_FailedRefresh ==
  [][\A p \in Procs :
       /\ (pc[p] = "token" /\ pc'[p] = "done") =>
            /\ cachedToken' = cachedToken
            /\ tokenTimestamp' = tokenTimestamp
            /\ tokenExpiry' = tokenExpiry
            /\ res'[p].status = 500
            /\ upstream'[p].auth = 1
            /\ authRequests' = authRequests
            /\ lastFailed'
       /\ (lastFailed /\ CallsGetToken(p)) =>
            /\ pc'[p] = "token"
            /\ authRequests' = authRequests + 1]_vars

\* A refresh has failed while an expired token was cached, and the next
\* call has issued its own request.
C9_Witness ==
  /\ lastFailed /\ cachedToken # Null
  /\ pc[1] = "token" /\ upstream[1].auth = 1
  /\ authRequests = 3 /\ issued = 1

\* C10: in index.js every reference ends in exactly one of pushed, skipped
\* and errors, so in a 200 answer total + skipped + errors = total_found,
\* total is the length of properties, and properties is in list order.
C10_Accounting ==
  variant = "A" =>
    \A p \in Procs :
      /\ Len(log[p]) = idx[p] - 1
      /\ \A i \in 1..Len(log[p]) :
           log[p][i].count \in {"pushed", "skipped", "errors"}
      /\ Len(processedProperties[p]) = CountOf(log[p], "pushed")
      /\ skipped[p] = CountOf(log[p], "skipped")
      /\ errors[p] = CountOf(log[p], "errors")
      /\ \A i, j \in 1..Len(log[p]) :
           (i < j /\ log[p][i].count = "pushed" /\ log[p][j].count = "pushed")
             => log[p][i].at < log[p][j].at
      /\ (lastResp[p] # Null /\ LastEntry(p).count = "pushed") =>
           processedProperties[p][Len(processedProperties[p])] =
             mapProperty(LastProperty(p), req[p].agent_email)
      /\ (res[p] # Null /\ res[p].status = 200 /\ IsImportCall(req[p])) =>
           LET b == res[p].body
           IN /\ b.total + b.skipped + b.errors = b.total_found
              /\ b.total_found = Len(propertyList[p])
              /\ b.total = Len(b.properties)
              /\ b.properties = processedProperties[p]

\* A 200 answer of index.js with one listing and one error.
C10_Witness ==
  /\ variant = "A" /\ res[1] # Null /\ res[1].status = 200
  /\ IsImportCall(req[1])
  /\ res[1].body.total = 1 /\ res[1].body.errors = 1
  /\ res[1].body.total_found = 2
====
